---- MODULE Spec2Model ----
(***************************************************************************)
(* taiko-client: ProofContester.SubmitContest (prover/proof_submitter),    *)
(* BlobFetcher.Fetch (driver/txlist_fetcher) and the ProofSubmitter        *)
(* request/submit pipeline exercised by proof_submitter_test.go.           *)
(***************************************************************************)
EXTENDS Integers, Sequences, FiniteSets, TLC

\* ------------------------------------------------------------------ bounds
\* Distinct common.Hash values used as parent hashes on the chain.
MaxHash == 2
\* Sidecars one GetBlobs answer may hold.
MaxSidecars == 2
\* Distinct KZG commitments.
MaxCommitment == 2
\* Blocks proposed on L1 (the events of ProposeAndInsertEmptyBlocks).
MaxBlocks == 3
\* Capacity of the proof-delivery channel (1024 in the test suite).
ProofChCapacity == 1

\* ----------------------------------------------------------- value domains
\* Concurrent callers of SubmitContest.
Procs == {"a", "b"}
Hashes == 1..MaxHash
\* State roots of the L2 block as the local node computed it.
StateRoots == {"root"}
\* Block ids are independent of one another in SubmitContest; one is modelled.
BlockIDs == {256}
\* The L1 height the block was proposed in (argument proposedIn).
ProposedIns == {7}
\* Proof tiers recorded on chain / passed by callers.
ContestTiers == {"optimistic", "sgx"}

\* common.Address{} (part_000:73) and the address of this prover's sender.
ZeroAddress == "0x0"
ProverAddress == "0xprover"
Addresses == {ZeroAddress, ProverAddress}

\* ------------------------------------------------------------------ errors
\* An error value: the revert data it carries (a custom-error selector, or
\* "" when there is none) and the words of its message.
Nil == [data |-> "", msg |-> <<>>]
\* A transport / RPC failure: no revert data.
ErrRPC == [data |-> "", msg |-> <<"connection", "refused">>]
\* An eth_call / transaction reverted by TaikoL1 with a custom error.
ErrTransitionNotFound == [data |-> "L1_TRANSITION_NOT_FOUND", msg |-> <<"execution", "reverted">>]
ErrAlreadyContested == [data |-> "L1_ALREADY_CONTESTED", msg |-> <<"execution", "reverted">>]
Errors == {ErrRPC, ErrTransitionNotFound, ErrAlreadyContested}

\* encoding.TryParsingCustomError: an error whose revert data names a custom
\* error of the bindings becomes that custom error (its message is the
\* namespace prefix followed by the name); nil and any other error are
\* returned as they are.
TryParsingCustomError(err) ==
    IF err = Nil THEN Nil
    ELSE IF err.data = "L1_TRANSITION_NOT_FOUND"
         THEN [data |-> err.data, msg |-> <<"L1_", "TRANSITION_NOT_FOUND">>]
    ELSE IF err.data = "L1_ALREADY_CONTESTED"
         THEN [data |-> err.data, msg |-> <<"L1_", "ALREADY_CONTESTED">>]
    ELSE err

\* strings.Contains(msg, "L1_") on a message given as its words.
ContainsL1Prefix(msg) == \E i \in 1..Len(msg) : msg[i] = "L1_"

\* ------------------------------------------------------------ chain values
\* bindings.TaikoL1 transition state as GetTransition returns it.
NilTransition == [found |-> FALSE, Tier |-> "none", Contester |-> ZeroAddress]
TransitionStates ==
    {NilTransition} \cup
    [found : {TRUE}, Tier : ContestTiers, Contester : Addresses]

\* types.Header of the L2 block: the fields SubmitContest reads.
NilHeader == [ParentHash |-> 0, Root |-> ""]
Headers == [ParentHash : Hashes, Root : StateRoots]
\* header.Hash(): the hash commits to the header's content.
HeaderHash(h) == <<"hash", h.ParentHash, h.Root>>
\* l1HeaderProposedIn.Hash() of the L1 header at the given height.
L1HeaderHash(n) == <<"l1hash", n>>

\* ProofContester.graffiti = rpc.StringToBytes32(graffiti), set at construction.
Graffiti == "graffiti"

\* bindings.TaikoDataBlockMetadata of a proposed block (opaque to SubmitContest).
MetaOf(b) == [Id |-> b]

VARIABLES
    \* on-chain transitions keyed by parent hash (of block BlockIDs)
    transitions,
    \* the L2 header of the block on the local L2 node
    l2Header,
    \* one record per SubmitContest caller: arguments, locals, position
    calls,
    \* the BlobFetcher.Fetch call in progress: argument, locals, position
    fetch,
    \* one RequestProof call per block id: position, context, result
    req,
    \* the proof-delivery channel (chan *ProofWithHeader)
    proofCh,
    \* the SubmitProof call in progress: its argument, position, result
    sub,
    \* the lifecycle state of each proposed block
    life,
    \* ProofWithHeaders written to the channel, per block
    delivered,
    \* prove transactions the sender confirmed, per block
    proveTxs

contestVars == <<transitions, l2Header, calls>>
fetchVars == <<fetch>>
proofVars == <<req, proofCh, sub, life, delivered, proveTxs>>
vars == <<contestVars, fetchVars, proofVars>>

\* ------------------------------------------------------ SubmitContest state
NilPwh == [BlockID |-> 0, Meta |-> MetaOf(0), Header |-> NilHeader,
           Proof |-> <<>>, EventL1Hash |-> <<>>, StateRoot |-> "", Tier |-> "none"]
NilTx == [blockID |-> 0, meta |-> MetaOf(0), ParentHash |-> 0, BlockHash |-> <<>>,
          StateRoot |-> "", Graffiti |-> "", Tier |-> "none", Data |-> <<>>,
          isContest |-> FALSE]

IdleCall ==
    [pc |-> "idle", blockID |-> 0, proposedIn |-> 0, parentHash |-> 0,
     meta |-> MetaOf(0), tier |-> "none",
     transition |-> NilTransition, err |-> Nil, header |-> NilHeader,
     l1Number |-> 0, ret |-> Nil, ops |-> <<>>, repeat |-> FALSE, peers |-> {},
     answer |-> <<NilTransition, Nil>>,
     pwh |-> NilPwh, tx |-> NilTx]

\* TransactionBuilder.Build(blockID, meta, transition, tierProof, isContest):
\* the arguments the unsigned TaikoL1.proveBlock call is encoded from; the
\* last one selects the argument-encoding variant.
Variant(isContest) == IF isContest THEN "contest" ELSE "prove"

Build(blockID, meta, transition, tierProof, isContest) ==
    [blockID |-> blockID, meta |-> meta,
     ParentHash |-> transition.ParentHash, BlockHash |-> transition.BlockHash,
     StateRoot |-> transition.StateRoot, Graffiti |-> transition.Graffiti,
     Tier |-> tierProof.Tier, Data |-> tierProof.Data, isContest |-> isContest]

\* part_000:97-107: the ProofWithHeader handed to the sender.
ContestProofWithHeader(c) ==
    [BlockID |-> c.blockID, Meta |-> c.meta, Header |-> c.header,
     Proof |-> <<>>, EventL1Hash |-> L1HeaderHash(c.l1Number),
     StateRoot |-> c.header.Root, Tier |-> c.tier]

\* The same with the parentHash argument as the transition's parent hash.
ContestTxArgParentHash(c) ==
    Build(c.blockID, c.meta,
          [ParentHash |-> c.parentHash, BlockHash |-> HeaderHash(c.header),
           StateRoot |-> c.header.Root, Graffiti |-> Graffiti],
          [Tier |-> c.transition.Tier, Data |-> <<>>],
          FALSE)

\* The same with the caller's tier argument in the tier proof.
ContestTxCallerTier(c) ==
    Build(c.blockID, c.meta,
          [ParentHash |-> c.header.ParentHash, BlockHash |-> HeaderHash(c.header),
           StateRoot |-> c.header.Root, Graffiti |-> Graffiti],
          [Tier |-> c.tier, Data |-> <<>>],
          FALSE)

\* part_000:108-122: the transaction built for the contest.
ContestTx(c) ==
    Build(c.blockID, c.meta,
          [ParentHash |-> c.header.ParentHash, BlockHash |-> HeaderHash(c.header),
           StateRoot |-> c.header.Root, Graffiti |-> Graffiti],
          [Tier |-> c.transition.Tier, Data |-> <<>>],
          FALSE)

\* The same with the contester check of part_000:73 left out.
AfterGetTransitionNoContesterCheck(c, transition, err) ==
    IF err # Nil
    THEN IF ~ContainsL1Prefix(TryParsingCustomError(err).msg)
         THEN [c EXCEPT !.err = err, !.ret = Nil, !.pc = "done"]
         ELSE [c EXCEPT !.err = err, !.ret = err, !.pc = "done"]
    ELSE [c EXCEPT !.transition = transition, !.pc = "L2Header"]

\* The same with the prefix test of part_000:61 inverted.
AfterGetTransitionPrefixInverted(c, transition, err) ==
    IF err # Nil
    THEN IF ContainsL1Prefix(TryParsingCustomError(err).msg)
         THEN [c EXCEPT !.err = err, !.ret = Nil, !.pc = "done"]
         ELSE [c EXCEPT !.err = err, !.ret = err, !.pc = "done"]
    ELSE IF transition.Contester # ZeroAddress
         THEN [c EXCEPT !.transition = transition, !.ret = Nil, !.pc = "done"]
         ELSE [c EXCEPT !.transition = transition, !.pc = "L2Header"]

\* part_000:60-81: what the call does with the result of GetTransition.
AfterGetTransition(c, transition, err) ==
    IF err # Nil
    THEN IF ~ContainsL1Prefix(TryParsingCustomError(err).msg)
         THEN [c EXCEPT !.err = err, !.ret = Nil, !.pc = "done"]
         ELSE [c EXCEPT !.err = err, !.ret = err, !.pc = "done"]
    ELSE IF transition.Contester # ZeroAddress
         THEN [c EXCEPT !.transition = transition, !.ret = Nil, !.pc = "done"]
         ELSE [c EXCEPT !.transition = transition, !.pc = "L2Header"]

\* What TaikoL1.GetTransition can answer in the current chain state: the
\* stored transition, the contract's revert when there is none, or a
\* transport failure.
GetTransitionAnswers(parentHash) ==
    {<<NilTransition, ErrRPC>>} \cup
    IF transitions[parentHash].found
    THEN {<<transitions[parentHash], Nil>>}
    ELSE {<<NilTransition, ErrTransitionNotFound>>}

\* TaikoL1.proveBlock as the chain applies a confirmed contest transaction:
\* a transition of the same tier with no contester gets this prover as its
\* contester; a parent hash with no transition gets a new one.
ProveBlockAccepts(tx) ==
    LET ts == transitions[tx.ParentHash] IN
    \/ ~ts.found
    \/ ts.found /\ ts.Contester = ZeroAddress /\ ts.Tier = tx.Tier

ProveBlockApply(tx) ==
    LET ts == transitions[tx.ParentHash] IN
    IF ~ts.found
    THEN [transitions EXCEPT ![tx.ParentHash] =
              [found |-> TRUE, Tier |-> tx.Tier, Contester |-> ZeroAddress]]
    ELSE [transitions EXCEPT ![tx.ParentHash].Contester = ProverAddress]

\* ---------------------------------------------------- SubmitContest actions
\* part_000:46-53: a caller enters SubmitContest with its arguments.
\* The callers other than p whose SubmitContest for (b, h) is in progress.
InProgressFor(p, b, h) ==
    {q \in Procs \ {p} : /\ calls[q].pc \notin {"idle", "done"}
                         /\ calls[q].blockID = b /\ calls[q].parentHash = h}

SubmitContestCall(p) ==
    /\ calls[p].pc \in {"idle", "done"}
    /\ \E b \in BlockIDs, n \in ProposedIns, h \in Hashes, t \in ContestTiers :
         calls' = [q \in Procs |->
           IF q = p
           THEN [IdleCall EXCEPT
                   !.pc = "GetTransition", !.blockID = b, !.proposedIn = n,
                   !.parentHash = h, !.meta = MetaOf(b), !.tier = t,
                   !.repeat = /\ calls[p].pc = "done"
                              /\ calls[p].blockID = b /\ calls[p].parentHash = h
                              /\ calls[p].ret = Nil
                              /\ calls[p].ops # <<>>
                              /\ calls[p].ops[Len(calls[p].ops)] = "Send"
                              /\ transitions[h].Contester # ZeroAddress,
                   !.peers = InProgressFor(p, b, h)]
           ELSE [calls[q] EXCEPT
                   !.peers = IF q \in InProgressFor(p, b, h)
                             THEN @ \cup {p} ELSE @ \ {p}]]
    /\ UNCHANGED <<transitions, l2Header, fetchVars, proofVars>>

\* part_000:54-81: the transition read and the two early returns.
GetTransition(p) ==
    /\ calls[p].pc = "GetTransition"
    /\ \E a \in GetTransitionAnswers(calls[p].parentHash) :
         calls' = [calls EXCEPT ![p] =
           AfterGetTransition([calls[p] EXCEPT !.ops = Append(@, "GetTransition"),
                                               !.answer = a],
                              a[1], a[2])]
    /\ UNCHANGED <<transitions, l2Header, fetchVars, proofVars>>

\* The same with the error of the read not looked at.
L2HeaderByNumberIgnoresError(p) ==
    /\ calls[p].pc = "L2Header"
    /\ \/ calls' = [calls EXCEPT ![p].ops = Append(@, "L2.HeaderByNumber"),
                                 ![p].header = l2Header, ![p].pc = "L1Header"]
       \/ calls' = [calls EXCEPT ![p].ops = Append(@, "L2.HeaderByNumber"),
                                 ![p].err = ErrRPC, ![p].pc = "L1Header"]
    /\ UNCHANGED <<transitions, l2Header, fetchVars, proofVars>>

\* part_000:84-87: c.rpc.L2.HeaderByNumber(ctx, blockID).
L2HeaderByNumber(p) ==
    /\ calls[p].pc = "L2Header"
    /\ \/ calls' = [calls EXCEPT ![p].ops = Append(@, "L2.HeaderByNumber"),
                                 ![p].header = l2Header, ![p].pc = "L1Header"]
       \/ calls' = [calls EXCEPT ![p].ops = Append(@, "L2.HeaderByNumber"),
                                 ![p].err = ErrRPC, ![p].ret = ErrRPC, ![p].pc = "done"]
    /\ UNCHANGED <<transitions, l2Header, fetchVars, proofVars>>

\* part_000:89-92: c.rpc.L1.HeaderByNumber(ctx, proposedIn).
L1HeaderByNumber(p) ==
    /\ calls[p].pc = "L1Header"
    /\ \/ calls' = [calls EXCEPT ![p].ops = Append(@, "L1.HeaderByNumber"),
                                 ![p].l1Number = calls[p].proposedIn, ![p].pc = "Send"]
       \/ calls' = [calls EXCEPT ![p].ops = Append(@, "L1.HeaderByNumber"),
                                 ![p].err = ErrRPC, ![p].ret = ErrRPC, ![p].pc = "done"]
    /\ UNCHANGED <<transitions, l2Header, fetchVars, proofVars>>

\* The same with the result of Send logged and dropped.
SendResultSwallows(c, err) ==
    [c EXCEPT !.ops = Append(@, "Send"), !.pwh = ContestProofWithHeader(c),
              !.tx = ContestTx(c), !.err = err, !.ret = Nil, !.pc = "done"]

\* part_000:94-124: build, send, and return the parsed result of Send.
SendResult(c, err) ==
    [c EXCEPT !.ops = Append(@, "Send"), !.pwh = ContestProofWithHeader(c),
              !.tx = ContestTx(c), !.err = err,
              !.ret = TryParsingCustomError(err), !.pc = "done"]

Send(p) ==
    /\ calls[p].pc = "Send"
    /\ \/ /\ ProveBlockAccepts(ContestTx(calls[p]))
          /\ transitions' = ProveBlockApply(ContestTx(calls[p]))
          /\ calls' = [calls EXCEPT ![p] = SendResult(calls[p], Nil)]
       \/ /\ \E e \in {ErrRPC, ErrAlreadyContested} :
               calls' = [calls EXCEPT ![p] = SendResult(calls[p], e)]
          /\ UNCHANGED transitions
    /\ UNCHANGED <<l2Header, fetchVars, proofVars>>

\* ============================================================ BlobFetcher

Commitments == 1..MaxCommitment
\* Raw blobs: two that decode and one that does not.
Blobs == {"blobA", "blobB", "badBlob"}
\* meta.L1Height of the proposing L1 block.
L1Heights == {7, 8}

\* common.FromHex of a hex string, given as its "0x" prefix and the bytes
\* its digits spell.
FromHex(hex) == hex[2]
\* kzg4844.CalcBlobHashV1(sha256.New(), &commitment): the version byte
\* followed by the digest of the commitment.
CalcBlobHashV1(commitment) == <<"v1", commitment>>
\* meta.BlobHash: the hash of a commitment, or a hash no commitment has.
BlobHashes == {CalcBlobHashV1(c) : c \in Commitments} \cup {<<"v1", 0>>}

\* BeaconSidecar as GetBlobs returns it: both fields are hex strings.
Sidecars == [KzgCommitment : {<<"0x", c>> : c \in Commitments},
             Blob : {<<"0x", b>> : b \in Blobs}]
SidecarLists == UNION {[1..n -> Sidecars] : n \in 0..MaxSidecars}

Metas == [BlobUsed : BOOLEAN, BlobHash : BlobHashes, L1Height : L1Heights]

\* The errors Fetch can return.
errBlobUnused == [data |-> "", msg |-> <<"blob", "is", "not", "used">>]
errSidecarNotFound == [data |-> "", msg |-> <<"sidecar", "not", "found">>]
ErrBeacon == [data |-> "", msg |-> <<"beacon", "request", "failed">>]
ErrInvalidBlob == [data |-> "", msg |-> <<"invalid", "blob">>]

\* rpc.Blob.ToData: the bytes a blob encodes, or an error for a blob that
\* encodes none.
ToData(blob) ==
    IF blob = "badBlob"
    THEN [data |-> <<>>, err |-> ErrInvalidBlob]
    ELSE [data |-> <<"txlist", blob>>, err |-> Nil]

IdleFetch ==
    [pc |-> "idle", meta |-> [BlobUsed |-> FALSE, BlobHash |-> <<"v1", 0>>, L1Height |-> 0],
     sidecars |-> <<>>, i |-> 0, data |-> <<>>, err |-> Nil,
     slots |-> <<>>, examined |-> <<>>, decoded |-> <<>>, beacon |-> Nil]

\* The same with the comparison of blob.go:58 inverted.
SidecarMatchesInverted(sidecar, meta) ==
    CalcBlobHashV1(FromHex(sidecar.KzgCommitment)) # meta.BlobHash

\* blob.go:54-58: whether the sidecar's commitment hashes to meta.BlobHash.
SidecarMatches(sidecar, meta) ==
    CalcBlobHashV1(FromHex(sidecar.KzgCommitment)) = meta.BlobHash

\* The same without the precondition check of blob.go:33.
EnterFetchNoPrecheck(meta) == [IdleFetch EXCEPT !.meta = meta, !.pc = "GetBlobs"]

\* blob.go:33-35: a meta whose blob is unused is refused before any request.
EnterFetch(meta) ==
    IF ~meta.BlobUsed
    THEN [IdleFetch EXCEPT !.meta = meta, !.err = errBlobUnused, !.pc = "done"]
    ELSE [IdleFetch EXCEPT !.meta = meta, !.pc = "GetBlobs"]

\* blob.go:28-35: Fetch is entered with the block's metadata.
FetchCall ==
    /\ fetch.pc \in {"idle", "done"}
    /\ \E meta \in Metas : fetch' = EnterFetch(meta)
    /\ UNCHANGED <<contestVars, proofVars>>

\* The same with the error of the request not looked at.
AfterGetBlobsIgnoresError(f, sidecars, err) ==
    [f EXCEPT !.sidecars = sidecars, !.i = 1, !.pc = "loop"]

\* blob.go:39-41: what Fetch does with the answer of GetBlobs.
AfterGetBlobs(f, sidecars, err) ==
    IF err # Nil
    THEN [f EXCEPT !.err = err, !.pc = "done"]
    ELSE [f EXCEPT !.sidecars = sidecars, !.i = 1, !.pc = "loop"]

\* What the beacon endpoint can answer: a failure, or a list of sidecars.
GetBlobsAnswers == {<<<<>>, ErrBeacon>>} \cup {<<l, Nil>> : l \in SidecarLists}

\* blob.go:37-43: d.rpc.L1Beacon.GetBlobs(ctx, meta.L1Height+1).
GetBlobs ==
    /\ fetch.pc = "GetBlobs"
    /\ \E a \in GetBlobsAnswers :
         fetch' = AfterGetBlobs(
                    [fetch EXCEPT !.slots = Append(@, fetch.meta.L1Height + 1),
                                  !.beacon = a[2]],
                    a[1], a[2])
    /\ UNCHANGED <<contestVars, proofVars>>

\* The same without the return inside the loop: a match is decoded and the
\* loop goes on, so that the last match decides.
LoopStepContinues(f) ==
    IF f.i > Len(f.sidecars)
    THEN IF f.decoded # <<>>
         THEN [f EXCEPT !.pc = "done"]
         ELSE [f EXCEPT !.err = errSidecarNotFound, !.pc = "done"]
    ELSE IF SidecarMatches(f.sidecars[f.i], f.meta)
         THEN LET r == ToData(FromHex(f.sidecars[f.i].Blob)) IN
              [f EXCEPT !.examined = Append(@, f.i), !.decoded = Append(@, f.i),
                        !.data = r.data, !.err = r.err, !.i = f.i + 1]
         ELSE [f EXCEPT !.examined = Append(@, f.i), !.i = f.i + 1]

\* blob.go:46-64: one iteration of the loop over the sidecars, or the
\* return after the last one.
LoopStep(f) ==
    IF f.i > Len(f.sidecars)
    THEN [f EXCEPT !.err = errSidecarNotFound, !.pc = "done"]
    ELSE IF SidecarMatches(f.sidecars[f.i], f.meta)
         THEN LET r == ToData(FromHex(f.sidecars[f.i].Blob)) IN
              [f EXCEPT !.examined = Append(@, f.i), !.decoded = Append(@, f.i),
                        !.data = r.data, !.err = r.err, !.pc = "done"]
         ELSE [f EXCEPT !.examined = Append(@, f.i), !.i = f.i + 1]

FetchLoop ==
    /\ fetch.pc = "loop"
    /\ fetch' = LoopStep(fetch)
    /\ UNCHANGED <<contestVars, proofVars>>

\* ========================================================= ProofSubmitter
ProposedBlocks == 1..MaxBlocks
\* common.Big256, the id of a block that was never proposed.
UnproposedID == 256

\* The reserved guardian tier and the tier of the optimistic producer.
TierGuardianID == "guardian"
TierOptimisticID == "optimistic"

\* ctx.Err() of an ended context.
ErrDeadlineExceeded == [data |-> "", msg |-> <<"context", "deadline", "exceeded">>]
ErrCanceled == [data |-> "", msg |-> <<"context", "canceled">>]
ErrProducer == [data |-> "", msg |-> <<"failed", "to", "request", "proof">>]
ErrMetadataNotFound == [data |-> "", msg |-> <<"block", "metadata", "not", "found">>]
ErrSend == [data |-> "", msg |-> <<"failed", "to", "send", "transaction">>]

\* The metadata stored on chain for a proposed block, and a metadata no
\* block was proposed with (the zero value of the test).
OnChainMeta(b) == [Id |-> b]
EmptyMeta == [Id |-> 0]

\* The ProofWithHeader the producer returns for a proposed block.
ProducedProof(b) ==
    [BlockID |-> b, Meta |-> OnChainMeta(b), Proof |-> <<"proof", b>>,
     Tier |-> TierOptimisticID]
NilProof == [BlockID |-> 0, Meta |-> EmptyMeta, Proof |-> <<>>, Tier |-> "none"]

\* ProofWithHeaders built by a caller whose block id / Meta match no block
\* metadata on chain.
UnknownProofs ==
    {[BlockID |-> b, Meta |-> EmptyMeta, Proof |-> pr, Tier |-> t] :
        b \in {1, UnproposedID}, pr \in {<<>>, <<"0xff">>},
        t \in {TierOptimisticID}}

IdleReq == [pc |-> "idle", ctx |-> "live", ret |-> Nil]
IdleSub == [pc |-> "idle", pwh |-> NilProof, from |-> "none", ret |-> Nil, ops |-> <<>>,
            err |-> Nil, variant |-> "none"]

\* The same reporting every ended context as a deadline.
CtxErrAlwaysDeadline(ctx) == ErrDeadlineExceeded

\* ctx.Err(): the error of an ended context.
CtxErr(ctx) == IF ctx = "deadline" THEN ErrDeadlineExceeded ELSE ErrCanceled

\* The same with the context not looked at.
ProducerMayCompleteIgnoringCtx(r) == r.pc = "waiting"

\* RequestProof's wait ends with the producer's result only while the
\* context is live.
ProducerMayComplete(r) == r.pc = "waiting" /\ r.ctx = "live"

\* The same looking the block up by id without comparing the stored fields.
MetadataFoundByIdOnly(pwh) == pwh.BlockID \in ProposedBlocks

\* SubmitProof's metadata check: the block was proposed and the stored
\* metadata equals the proof's.
MetadataFound(pwh) ==
    pwh.BlockID \in ProposedBlocks /\ OnChainMeta(pwh.BlockID) = pwh.Meta

\* The same with the guardian tier refused for want of tier-fee parameters.
AfterGetBlockGuardianNeedsFees(c) ==
    IF ~MetadataFound(c.pwh)
    THEN [c EXCEPT !.ops = Append(@, "GetBlock"), !.ret = ErrMetadataNotFound,
                   !.pc = "done"]
    ELSE IF c.pwh.Tier = TierGuardianID
         THEN [c EXCEPT !.ops = @ \o <<"GetBlock", "TierFeeBump">>,
                        !.ret = ErrSend, !.pc = "done"]
         ELSE [c EXCEPT !.ops = @ \o <<"GetBlock", "TierFeeBump", "Build">>,
                        !.variant = Variant(FALSE), !.pc = "Send"]

\* SubmitProof after the metadata read: fail when it is not found; else the
\* tier-fee bump (skipped for the guardian tier) and the build, then the send.
AfterGetBlock(c) ==
    IF ~MetadataFound(c.pwh)
    THEN [c EXCEPT !.ops = Append(@, "GetBlock"), !.ret = ErrMetadataNotFound,
                   !.pc = "done"]
    ELSE IF c.pwh.Tier = TierGuardianID
         THEN [c EXCEPT !.ops = @ \o <<"GetBlock", "Build">>,
                        !.variant = Variant(FALSE), !.pc = "Send"]
         ELSE [c EXCEPT !.ops = @ \o <<"GetBlock", "TierFeeBump", "Build">>,
                        !.variant = Variant(FALSE), !.pc = "Send"]

\* The lifecycle state of block b after a step, for proposed blocks only.
SetLife(b, state) ==
    IF b \in ProposedBlocks THEN [life EXCEPT ![b] = state] ELSE life

\* The same with the received proof left in the channel.
AfterReceiveKeeps(ch) == ch

\* What a receive leaves in the channel.
AfterReceive(ch) == Tail(ch)

\* The same for a channel that never fills.
ChannelAlwaysHasRoom(ch) == TRUE

\* Whether a writer may put a proof into the channel now.
ChannelHasRoom(ch) == Len(ch) < ProofChCapacity

\* RequestProof(ctx, event) is entered for block b.
RequestProofCall(b) ==
    /\ req[b].pc = "idle"
    /\ req' = [req EXCEPT ![b].pc = "waiting"]
    /\ UNCHANGED <<proofCh, sub, life, delivered, proveTxs, contestVars, fetchVars>>

\* The context's deadline elapses while the call waits.
DeadlineElapses(b) ==
    /\ req[b].pc = "waiting" /\ req[b].ctx = "live"
    /\ req' = [req EXCEPT ![b].ctx = "deadline"]
    /\ UNCHANGED <<proofCh, sub, life, delivered, proveTxs, contestVars, fetchVars>>

\* The context is cancelled while the call waits.
ContextCancelled(b) ==
    /\ req[b].pc = "waiting" /\ req[b].ctx = "live"
    /\ req' = [req EXCEPT ![b].ctx = "canceled"]
    /\ UNCHANGED <<proofCh, sub, life, delivered, proveTxs, contestVars, fetchVars>>

\* RequestProof returns the error of its ended context.
RequestProofAborts(b) ==
    /\ req[b].pc = "waiting" /\ req[b].ctx # "live"
    /\ req' = [req EXCEPT ![b].ret = CtxErr(req[b].ctx), ![b].pc = "done"]
    /\ life' = SetLife(b, "Failed")
    /\ UNCHANGED <<proofCh, sub, delivered, proveTxs, contestVars, fetchVars>>

\* The producer completes with a proof for a proposed block.
ProducerCompletes(b) ==
    /\ b \in ProposedBlocks
    /\ ProducerMayComplete(req[b])
    /\ req' = [req EXCEPT ![b].pc = "deliver"]
    /\ UNCHANGED <<proofCh, sub, life, delivered, proveTxs, contestVars, fetchVars>>

\* The producer fails; RequestProof returns its error.
ProducerFails(b) ==
    /\ ProducerMayComplete(req[b])
    /\ req' = [req EXCEPT ![b].ret = ErrProducer, ![b].pc = "done"]
    /\ life' = SetLife(b, "Failed")
    /\ UNCHANGED <<proofCh, sub, delivered, proveTxs, contestVars, fetchVars>>

\* RequestProof writes the proof to the channel (blocking while it is full)
\* and returns nil.
Deliver(b) ==
    /\ req[b].pc = "deliver"
    /\ ChannelHasRoom(proofCh)
    /\ proofCh' = Append(proofCh, ProducedProof(b))
    /\ delivered' = [delivered EXCEPT ![b] = @ + 1]
    /\ req' = [req EXCEPT ![b].ret = Nil, ![b].pc = "done"]
    /\ life' = SetLife(b, "ProofRequested")
    /\ UNCHANGED <<sub, proveTxs, contestVars, fetchVars>>

\* proof_submitter_test.go:141-142,151-153: the consumer receives a proof,
\* keeps its tier or tags it guardian, and enters SubmitProof with it.
Receive ==
    /\ sub.pc \in {"idle", "done"}
    /\ proofCh # <<>>
    /\ \E t \in {Head(proofCh).Tier, TierGuardianID} :
         sub' = [IdleSub EXCEPT !.pc = "GetBlock", !.from = "channel",
                                !.pwh = [Head(proofCh) EXCEPT !.Tier = t]]
    /\ proofCh' = AfterReceive(proofCh)
    /\ life' = SetLife(Head(proofCh).BlockID, "ProofReceived")
    /\ UNCHANGED <<req, delivered, proveTxs, contestVars, fetchVars>>

\* proof_submitter_test.go:122-134: SubmitProof entered with a proof the
\* caller built itself.
SubmitProofCall ==
    /\ sub.pc \in {"idle", "done"}
    /\ \E pwh \in UnknownProofs :
         sub' = [IdleSub EXCEPT !.pc = "GetBlock", !.from = "caller", !.pwh = pwh]
    /\ UNCHANGED <<req, proofCh, life, delivered, proveTxs, contestVars, fetchVars>>

\* SubmitProof re-reads the block's metadata and checks the proof's against it.
GetBlock ==
    /\ sub.pc = "GetBlock"
    /\ sub' = AfterGetBlock(sub)
    /\ life' = IF sub'.pc = "done" /\ sub.from = "channel"
               THEN SetLife(sub.pwh.BlockID, "Failed") ELSE life
    /\ UNCHANGED <<req, proofCh, delivered, proveTxs, contestVars, fetchVars>>

\* The metadata read fails in the RPC layer.
GetBlockFails ==
    /\ sub.pc = "GetBlock"
    /\ sub' = [sub EXCEPT !.ops = Append(@, "GetBlock"), !.ret = ErrRPC, !.pc = "done"]
    /\ life' = IF sub.from = "channel"
               THEN SetLife(sub.pwh.BlockID, "Failed") ELSE life
    /\ UNCHANGED <<req, proofCh, delivered, proveTxs, contestVars, fetchVars>>

\* The sender confirms the prove transaction; SubmitProof returns nil.
SendProve ==
    /\ sub.pc = "Send"
    /\ sub' = [sub EXCEPT !.ops = Append(@, "Send"), !.ret = Nil, !.pc = "done"]
    /\ proveTxs' = [proveTxs EXCEPT ![sub.pwh.BlockID] = @ + 1]
    /\ life' = SetLife(sub.pwh.BlockID, "Submitted")
    /\ UNCHANGED <<req, proofCh, delivered, contestVars, fetchVars>>

\* The sender fails; SubmitProof returns its error.
SendProveFails ==
    /\ sub.pc = "Send"
    /\ sub' = [sub EXCEPT !.ops = Append(@, "Send"), !.err = ErrSend,
                          !.ret = ErrSend, !.pc = "done"]
    /\ life' = SetLife(sub.pwh.BlockID, "Failed")
    /\ UNCHANGED <<req, proofCh, delivered, proveTxs, contestVars, fetchVars>>

\* ============================================================ specifications
ContestIdle ==
    /\ transitions = [h \in Hashes |-> NilTransition]
    /\ l2Header = [ParentHash |-> 1, Root |-> "root"]
    /\ calls = [p \in Procs |-> IdleCall]

FetchIdle == fetch = IdleFetch

ProofIdle ==
    /\ req = [b \in ProposedBlocks |-> IdleReq]
    /\ proofCh = <<>>
    /\ sub = IdleSub
    /\ life = [b \in ProposedBlocks |-> "Proposed"]
    /\ delivered = [b \in ProposedBlocks |-> 0]
    /\ proveTxs = [b \in ProposedBlocks |-> 0]

ContestInit ==
    /\ transitions \in [Hashes -> TransitionStates]
    /\ l2Header \in Headers
    /\ calls = [p \in Procs |-> IdleCall]
    /\ FetchIdle
    /\ ProofIdle

ContestNext ==
    \E p \in Procs :
        \/ SubmitContestCall(p)
        \/ GetTransition(p)
        \/ L2HeaderByNumber(p)
        \/ L1HeaderByNumber(p)
        \/ Send(p)

SpecContest == ContestInit /\ [][ContestNext]_vars

FetchInit == ContestIdle /\ FetchIdle /\ ProofIdle

FetchNext == FetchCall \/ GetBlobs \/ FetchLoop

SpecFetch == FetchInit /\ [][FetchNext]_vars

ProofInit == ContestIdle /\ FetchIdle /\ ProofIdle

ProofNext ==
    \/ \E b \in ProposedBlocks :
          \/ RequestProofCall(b)
          \/ DeadlineElapses(b)
          \/ ContextCancelled(b)
          \/ RequestProofAborts(b)
          \/ ProducerCompletes(b)
          \/ ProducerFails(b)
          \/ Deliver(b)
    \/ Receive
    \/ SubmitProofCall
    \/ GetBlock
    \/ GetBlockFails
    \/ SendProve
    \/ SendProveFails

SpecProof == ProofInit /\ [][ProofNext]_vars

\* TestSubmitProofs / TestGuardianSubmitProofs: every proposed block is
\* requested with context.Background(), and the producer, the RPC reads and
\* the sender do not fail. Each step of the pipeline is taken when it can be.
E2ENext ==
    \/ \E b \in ProposedBlocks :
          \/ RequestProofCall(b)
          \/ ProducerCompletes(b)
          \/ Deliver(b)
    \/ Receive
    \/ GetBlock
    \/ SendProve

SpecE2E == ProofInit /\ [][E2ENext]_vars /\ WF_vars(E2ENext)

\* The two submitters side by side: they share the TransactionSender and no
\* state, so a behaviour is one of the contester or one of the proof
\* submitter, each from its own initial states.
SubmitNext ==
    \/ ProofIdle /\ ContestNext
    \/ ContestIdle /\ ProofNext

SpecSubmit == ContestInit /\ [][SubmitNext]_vars

\* ------------------------------------------------- SubmitContest properties
\* The call's transition read has been answered.
ReadAnswered(c) == c.ops # <<>>
\* The read succeeded and returned a transition that has a contester.
ReadContested(c) ==
    ReadAnswered(c) /\ c.answer[2] = Nil /\ c.answer[1].Contester # ZeroAddress
\* The read failed.
ReadFailed(c) == ReadAnswered(c) /\ c.answer[2] # Nil
\* The failure is a custom error of the TaikoL1 contract, whose parsed
\* message carries the reserved prefix.
IsL1CustomError(err) == err \in {ErrTransitionNotFound, ErrAlreadyContested}

\* C1: a SubmitContest call whose GetTransition succeeds with a non-zero
\* Contester returns nil and has called nothing but GetTransition: no header
\* read and no TransactionSender.Send.
C1_ContestedReturnsNilWithoutSend ==
    \A p \in Procs :
        ReadContested(calls[p]) =>
            /\ calls[p].pc = "done"
            /\ calls[p].ret = Nil
            /\ calls[p].ops = <<"GetTransition">>

C1_Witness ==
    \E p \in Procs : ReadContested(calls[p]) /\ calls[p].pc = "done"

C10_ReadFailureNeverSends ==
    \A p \in Procs :
        ReadFailed(calls[p]) =>
            /\ calls[p].pc = "done"
            /\ calls[p].ops = <<"GetTransition">>
            /\ calls[p].ret =
                 IF IsL1CustomError(calls[p].answer[2]) THEN calls[p].answer[2] ELSE Nil

C10_Witness ==
    \E p, q \in Procs :
        /\ ReadFailed(calls[p]) /\ IsL1CustomError(calls[p].answer[2])
        /\ calls[p].ret = ErrTransitionNotFound
        /\ ReadFailed(calls[q]) /\ ~IsL1CustomError(calls[q].answer[2])
        /\ calls[q].ret = Nil /\ calls[q].pc = "done"

\* The call reached TransactionSender.Send and has returned.
ReturnedFromSend(c) ==
    c.pc = "done" /\ c.ops # <<>> /\ c.ops[Len(c.ops)] = "Send"

\* C11: a SubmitContest or SubmitProof call that reached
\* TransactionSender.Send returns nil exactly when Send returned nil: an
\* error of Send always comes back as a non-nil error of the call.
C11_SendErrorsPropagate ==
    /\ \A p \in Procs :
         ReturnedFromSend(calls[p]) => (calls[p].ret = Nil <=> calls[p].err = Nil)
    /\ ReturnedFromSend(sub) => (sub.ret = Nil <=> sub.err = Nil)

C11_Witness ==
    \E p, q \in Procs :
        /\ ReturnedFromSend(calls[p]) /\ calls[p].err = ErrAlreadyContested
        /\ calls[p].ret # Nil
        /\ ReturnedFromSend(calls[q]) /\ calls[q].err = Nil /\ calls[q].ret = Nil

\* The current calls of p and q are for the same (blockID, parentHash) and
\* overlapped in time.
Concurrent(p, q) ==
    /\ p # q /\ q \in calls[p].peers
    /\ calls[p].blockID = calls[q].blockID /\ calls[p].parentHash = calls[q].parentHash
\* The call handed a contest transaction to the sender.
Submitted(c) == \E i \in 1..Len(c.ops) : c.ops[i] = "Send"

\* C12 as stated: of concurrent SubmitContest calls for the same
\* (blockID, parentHash), at most one hands a contest to the sender.
C12_AsStated ==
    \A p, q \in Procs :
        Concurrent(p, q) => ~(Submitted(calls[p]) /\ Submitted(calls[q]))

\* C12 amended: of concurrent calls for the same key, one whose read sees a
\* contester already recorded hands nothing to the sender and returns nil,
\* and on chain a transition's contester, once set, never changes: at most
\* one contest is recorded per transition, though calls that all read before
\* it was recorded may each submit one.
C12_AtMostOneContestRecorded ==
    /\ [](\A p, q \in Procs :
            (Concurrent(p, q) /\ ReadContested(calls[q])) =>
                (~Submitted(calls[q]) /\ calls[q].pc = "done" /\ calls[q].ret = Nil))
    /\ [][\A h \in Hashes :
            transitions[h].Contester # ZeroAddress =>
                transitions'[h] = transitions[h]]_vars

C12_Witness ==
    \E p, q \in Procs :
        /\ Concurrent(p, q)
        /\ ReturnedFromSend(calls[p]) /\ calls[p].ret = Nil
        /\ calls[p].tx.ParentHash = calls[p].parentHash
        /\ transitions[calls[p].parentHash].Contester = ProverAddress
        /\ ReadContested(calls[q]) /\ calls[q].pc = "done" /\ calls[q].ret = Nil

\* The tier of the on-chain transition the call read.
OnChainTier(c) == c.answer[1].Tier

\* C13 as stated: in every contest handed to the sender both the built
\* transaction's tier proof and the ProofWithHeader carry the tier of the
\* transition read on chain; the proof bytes are empty and the transition
\* carries the process graffiti.
C13_AsStated ==
    \A p \in Procs :
        Submitted(calls[p]) =>
            /\ calls[p].tx.Tier = OnChainTier(calls[p])
            /\ calls[p].pwh.Tier = OnChainTier(calls[p])
            /\ calls[p].tx.Data = <<>> /\ calls[p].pwh.Proof = <<>>
            /\ calls[p].tx.Graffiti = "graffiti"

\* C13 amended: the built transaction's tier proof carries the tier of the
\* transition read on chain, whatever the caller's tier argument, while the
\* accompanying ProofWithHeader carries the caller's tier argument; the
\* proof bytes of both are empty and the transition carries the process
\* graffiti.
C13_TxTierOnChainPwhTierCaller ==
    \A p \in Procs :
        Submitted(calls[p]) =>
            /\ calls[p].tx.Tier = OnChainTier(calls[p])
            /\ calls[p].pwh.Tier = calls[p].tier
            /\ calls[p].tx.Data = <<>> /\ calls[p].pwh.Proof = <<>>
            /\ calls[p].tx.Graffiti = "graffiti"

C13_Witness ==
    \E p \in Procs :
        /\ Submitted(calls[p])
        /\ calls[p].tier = "sgx" /\ OnChainTier(calls[p]) = "optimistic"
        /\ calls[p].tx.Tier = "optimistic" /\ calls[p].pwh.Tier = "sgx"

\* C14 as stated: every contest SubmitContest hands to the sender was built
\* with the contest variant of Build (isContest set), and every transaction
\* SubmitProof builds with the prove variant.
C14_AsStated ==
    /\ \A p \in Procs :
         Submitted(calls[p]) =>
             (calls[p].tx.isContest /\ Variant(calls[p].tx.isContest) = "contest")
    /\ sub.pc \in {"Send", "done"} /\ sub.variant # "none" => sub.variant = "prove"

\* The collaborator calls of a SubmitContest that sends, in their order.
ReadsThenSend == <<"GetTransition", "L2.HeaderByNumber", "L1.HeaderByNumber", "Send">>
\* The call ended at a header read.
EndedAtHeaderRead(c) ==
    /\ c.pc = "done" /\ c.ops # <<>>
    /\ c.ops[Len(c.ops)] \in {"L2.HeaderByNumber", "L1.HeaderByNumber"}

\* C18: a call that is at or past TransactionSender.Send has read, in this
\* order and each once, the transition (successfully, with a zero
\* Contester), the L2 header at blockID and the L1 header at proposedIn, and
\* holds what the two header reads returned; a call that ended at a header
\* read returned that read's error, which is not nil, and sent nothing.
C18_ReadsPrecedeSend ==
    \A p \in Procs :
        /\ (calls[p].pc = "Send" \/ Submitted(calls[p])) =>
              /\ SubSeq(ReadsThenSend, 1, Len(calls[p].ops)) = calls[p].ops
              /\ Len(calls[p].ops) = IF calls[p].pc = "Send" THEN 3 ELSE 4
              /\ calls[p].answer[2] = Nil
              /\ calls[p].answer[1].found
              /\ calls[p].answer[1].Contester = ZeroAddress
              /\ calls[p].header \in Headers
              /\ calls[p].l1Number = calls[p].proposedIn
        /\ EndedAtHeaderRead(calls[p]) =>
              /\ calls[p].ret = ErrRPC
              /\ calls[p].ret # Nil
              /\ ~Submitted(calls[p])
              /\ calls[p].tx = NilTx

C18_Witness ==
    \E p, q \in Procs :
        /\ calls[p].ops = ReadsThenSend /\ calls[p].pc = "done"
        /\ calls[q].ops = <<"GetTransition", "L2.HeaderByNumber", "L1.HeaderByNumber">>
        /\ calls[q].pc = "done" /\ calls[q].ret = ErrRPC

\* C20: the transition of a contest handed to the sender has the
\* ParentHash, the hash and the state root of the L2 header the call read
\* at blockID, which is the header the L2 node holds; the parentHash
\* argument, under which the transition was looked up, does not enter it.
C20_TransitionFromHeader ==
    \A p \in Procs :
        Submitted(calls[p]) =>
            /\ calls[p].header = l2Header
            /\ calls[p].tx.ParentHash = l2Header.ParentHash
            /\ calls[p].tx.BlockHash = <<"hash", l2Header.ParentHash, l2Header.Root>>
            /\ calls[p].tx.StateRoot = l2Header.Root
            /\ calls[p].pwh.Header = l2Header
            /\ calls[p].pwh.StateRoot = l2Header.Root

C20_Witness ==
    \E p \in Procs :
        /\ Submitted(calls[p])
        /\ calls[p].answer[1].Contester = ZeroAddress /\ calls[p].answer[1].found
        /\ calls[p].parentHash # l2Header.ParentHash
        /\ calls[p].tx.ParentHash = l2Header.ParentHash
        /\ calls[p].tx.ParentHash # calls[p].parentHash

\* ---------------------------------------------------------- Fetch properties
\* GetBlobs answered with a sidecar list and Fetch has returned.
FetchReturnedOnList == fetch.pc = "done" /\ fetch.i >= 1
\* hash(S.KzgCommitment) = meta.BlobHash for the k-th sidecar of the list.
HashMatches(k) == <<"v1", fetch.sidecars[k].KzgCommitment[2]>> = fetch.meta.BlobHash
\* The k-th sidecar's blob encodes data.
BlobDecodes(k) == fetch.sidecars[k].Blob[2] # "badBlob"
\* Fetch returned data, decoded from the k-th sidecar.
ReturnsDataFrom(k) ==
    /\ fetch.err = Nil
    /\ fetch.decoded = <<k>>
    /\ fetch.data = <<"txlist", fetch.sidecars[k].Blob[2]>>
SidecarIndexes == 1..Len(fetch.sidecars)
FirstMatch(k) == HashMatches(k) /\ \A j \in 1..(k - 1) : ~HashMatches(j)

\* C3 as stated: with a sidecar list returned, Fetch returns data decoded
\* from a sidecar exactly when some sidecar's commitment hash equals
\* meta.BlobHash, only ever from a matching one, and fails with
\* sidecar-not-found when none matches.
C3_AsStated ==
    FetchReturnedOnList =>
        /\ (\E k \in SidecarIndexes : HashMatches(k))
             <=> (\E k \in SidecarIndexes : ReturnsDataFrom(k))
        /\ \A k \in SidecarIndexes : ReturnsDataFrom(k) => HashMatches(k)
        /\ (\A k \in SidecarIndexes : ~HashMatches(k)) => fetch.err = errSidecarNotFound

\* C3 amended: Fetch returns data decoded from sidecar S exactly when S is
\* the first sidecar whose commitment hash equals meta.BlobHash and S's blob
\* decodes; when that blob does not decode Fetch returns the decode error;
\* when no sidecar matches it fails with sidecar-not-found, having decoded
\* nothing, and never with another error.
C3_FirstMatchDecodedOrNotFound ==
    FetchReturnedOnList =>
        /\ \A k \in SidecarIndexes :
             ReturnsDataFrom(k) <=> (FirstMatch(k) /\ BlobDecodes(k))
        /\ \A k \in SidecarIndexes :
             (FirstMatch(k) /\ ~BlobDecodes(k)) =>
                 (fetch.err = ErrInvalidBlob /\ fetch.data = <<>>)
        /\ (\A k \in SidecarIndexes : ~HashMatches(k)) <=>
             (fetch.err = errSidecarNotFound)
        /\ (\A k \in SidecarIndexes : ~HashMatches(k)) =>
             (fetch.decoded = <<>> /\ fetch.data = <<>>)

C3_Witness ==
    /\ FetchReturnedOnList
    /\ Len(fetch.sidecars) = 2
    /\ ~HashMatches(1) /\ ReturnsDataFrom(2)

\* C4: a Fetch whose meta.BlobUsed is false has failed with the blob-unused
\* error, which is not the sidecar-not-found error, without a GetBlobs
\* request and without examining or decoding a sidecar.
C4_BlobUnusedBeforeAnyRequest ==
    (fetch.pc # "idle" /\ ~fetch.meta.BlobUsed) =>
        /\ fetch.pc = "done"
        /\ fetch.err = errBlobUnused
        /\ fetch.err # errSidecarNotFound
        /\ fetch.slots = <<>>
        /\ fetch.examined = <<>> /\ fetch.decoded = <<>> /\ fetch.data = <<>>

C4_Witness ==
    fetch.pc = "done" /\ ~fetch.meta.BlobUsed /\ fetch.err = errBlobUnused

\* C17: once GetBlobs was called it was called once, for slot
\* meta.L1Height + 1; and when the list has a sidecar whose commitment hash
\* equals meta.BlobHash, the sidecars examined are those up to the first
\* such sidecar, that one alone is decoded, and Fetch's result is the result
\* of decoding it, whatever follows it in the list.
C17_FirstMatchDecides ==
    /\ fetch.pc \in {"loop", "done"} /\ fetch.meta.BlobUsed =>
          fetch.slots = <<fetch.meta.L1Height + 1>>
    /\ FetchReturnedOnList =>
          \A k \in SidecarIndexes :
              FirstMatch(k) =>
                  /\ fetch.examined = [i \in 1..k |-> i]
                  /\ fetch.decoded = <<k>>
                  /\ IF BlobDecodes(k)
                     THEN /\ fetch.err = Nil
                          /\ fetch.data = <<"txlist", fetch.sidecars[k].Blob[2]>>
                     ELSE fetch.err = ErrInvalidBlob /\ fetch.data = <<>>

C17_Witness ==
    /\ FetchReturnedOnList
    /\ Len(fetch.sidecars) = 2
    /\ HashMatches(1) /\ HashMatches(2)
    /\ fetch.sidecars[1].Blob # fetch.sidecars[2].Blob
    /\ BlobDecodes(1) /\ BlobDecodes(2)
    /\ fetch.examined = <<1>> /\ fetch.data = <<"txlist", fetch.sidecars[1].Blob[2]>>
    /\ fetch.slots = <<fetch.meta.L1Height + 1>>

\* C19: a Fetch whose GetBlobs request failed has returned that request's
\* error, which is neither the sidecar-not-found nor the blob-unused error,
\* and has examined and decoded nothing; and a Fetch whose first matching
\* sidecar holds a blob that does not decode has returned the decode error,
\* not sidecar-not-found, without going on to a later sidecar.
C19_RequestAndDecodeErrorsReturned ==
    /\ fetch.beacon # Nil =>
          /\ fetch.pc = "done"
          /\ fetch.err = fetch.beacon
          /\ fetch.err \notin {errSidecarNotFound, errBlobUnused}
          /\ fetch.examined = <<>> /\ fetch.decoded = <<>> /\ fetch.data = <<>>
    /\ (fetch.pc = "done" /\ fetch.beacon = Nil /\ fetch.slots # <<>>) =>
          \A k \in SidecarIndexes :
              (FirstMatch(k) /\ ~BlobDecodes(k)) =>
                  /\ fetch.err = ErrInvalidBlob
                  /\ fetch.err # errSidecarNotFound
                  /\ fetch.data = <<>>
                  /\ \A j \in SidecarIndexes :
                       j > k => (\A i \in 1..Len(fetch.examined) : fetch.examined[i] # j)

C19_Witness ==
    /\ fetch.pc = "done" /\ fetch.beacon = Nil
    /\ Len(fetch.sidecars) = 2
    /\ HashMatches(1) /\ ~BlobDecodes(1)
    /\ HashMatches(2) /\ BlobDecodes(2)
    /\ fetch.err = ErrInvalidBlob

\* ------------------------------------------------- ProofSubmitter properties
\* A proof of block b is in the channel.
InChannel(b) == \E i \in 1..Len(proofCh) : proofCh[i].BlockID = b
\* The proof's block id and Meta match the metadata of a proposed block.
MatchesOnChain(pwh) ==
    pwh.BlockID \in ProposedBlocks /\ pwh.Meta = [Id |-> pwh.BlockID]

\* C5: a RequestProof whose context deadline elapsed before the producer
\* completed returns "context deadline exceeded", never nil, and no
\* ProofWithHeader of that call reaches the channel.
C5_DeadlineReturnsDeadlineError ==
    \A b \in ProposedBlocks :
        req[b].ctx = "deadline" =>
            /\ req[b].pc \in {"waiting", "done"}
            /\ req[b].pc = "done" =>
                 /\ req[b].ret.msg = <<"context", "deadline", "exceeded">>
                 /\ req[b].ret # Nil
            /\ delivered[b] = 0
            /\ ~InChannel(b)

C5_Witness ==
    \E b \in ProposedBlocks :
        req[b].ctx = "deadline" /\ req[b].pc = "done" /\ req[b].ret = ErrDeadlineExceeded

\* C6: a RequestProof whose context was cancelled while it waited returns
\* "context canceled", which is neither the deadline error nor nil.
C6_CancelReturnsCanceledError ==
    \A b \in ProposedBlocks :
        req[b].ctx = "canceled" =>
            /\ req[b].pc \in {"waiting", "done"}
            /\ req[b].pc = "done" =>
                 /\ req[b].ret.msg = <<"context", "canceled">>
                 /\ req[b].ret # ErrDeadlineExceeded
                 /\ req[b].ret # Nil

C6_Witness ==
    \E b \in ProposedBlocks :
        req[b].ctx = "canceled" /\ req[b].pc = "done" /\ req[b].ret = ErrCanceled

\* C7: a SubmitProof whose proof matches no on-chain block metadata never
\* reaches the sender and returns a non-nil error, whatever its proof bytes.
C7_UnknownMetadataFailsWithoutSend ==
    (sub.pc # "idle" /\ ~MatchesOnChain(sub.pwh)) =>
        /\ sub.pc \in {"GetBlock", "done"}
        /\ \A i \in 1..Len(sub.ops) : sub.ops[i] \notin {"Build", "Send"}
        /\ sub.pc = "done" => sub.ret # Nil

C7_Witness ==
    /\ sub.pc = "done" /\ sub.from = "caller"
    /\ sub.pwh.BlockID = UnproposedID /\ sub.pwh.Proof = <<"0xff">>
    /\ sub.ret = ErrMetadataNotFound

\* The transitions of a block's proof lifecycle.
LifeSteps ==
    {<<"Proposed", "ProofRequested">>, <<"ProofRequested", "ProofReceived">>,
     <<"ProofReceived", "Submitted">>,
     <<"Proposed", "Failed">>, <<"ProofReceived", "Failed">>}

\* C15: a block's lifecycle state changes only along Proposed ->
\* ProofRequested -> ProofReceived -> Submitted, Proposed -> Failed and
\* ProofReceived -> Failed; a Submitted block's RequestProof returned nil
\* after delivering its proof; and a SubmitProof that takes a delivered
\* proof takes it out of the channel, so that it is consumed at most once.
C15_LifecycleOrder ==
    /\ [][\A b \in ProposedBlocks :
            life'[b] # life[b] => <<life[b], life'[b]>> \in LifeSteps]_vars
    /\ [](\A b \in ProposedBlocks :
            life[b] \in {"ProofReceived", "Submitted"} =>
                (req[b].pc = "done" /\ req[b].ret = Nil /\ delivered[b] = 1))
    /\ [][(sub'.pc = "GetBlock" /\ sub'.from = "channel" /\ sub.pc # "GetBlock") =>
            /\ proofCh # <<>>
            /\ Head(proofCh).BlockID = sub'.pwh.BlockID
            /\ proofCh' = Tail(proofCh)
            /\ \A i \in 1..Len(proofCh') :
                 proofCh'[i].BlockID # sub'.pwh.BlockID]_vars

C15_Witness ==
    \E b, c, d \in ProposedBlocks :
        /\ life[b] = "Submitted" /\ proveTxs[b] = 1
        /\ life[c] = "Failed" /\ req[c].ret = Nil /\ delivered[c] = 1
        /\ life[d] = "Failed" /\ req[d].ret # Nil /\ delivered[d] = 0

\* How many proofs of block b are queued in the channel.
QueuedFor(b) == Cardinality({i \in 1..Len(proofCh) : proofCh[i].BlockID = b})
\* The proof of block b was taken from the channel by the consumer.
ReceivedFor(b) == life[b] \in {"ProofReceived", "Submitted", "Failed"}

\* C16: the channel never holds more proofs than its capacity; a
\* RequestProof that has a proof to write while the channel is full stays
\* where it is until a receive makes room; every proof written is either
\* still queued, once, or was received, never both and never twice, and is
\* eventually received.
C16_BoundedChannelNoLoss ==
    /\ [](Len(proofCh) <= ProofChCapacity)
    /\ [][\A b \in ProposedBlocks :
            (req[b].pc = "deliver" /\ Len(proofCh) >= ProofChCapacity) =>
                (req'[b].pc = "deliver" /\ delivered'[b] = delivered[b])]_vars
    /\ [](\A b \in ProposedBlocks :
            /\ delivered[b] <= 1
            /\ delivered[b] = 0 => (QueuedFor(b) = 0 /\ ~ReceivedFor(b))
            /\ delivered[b] = 1 => (QueuedFor(b) = 1 /\ ~ReceivedFor(b))
                                      \/ (QueuedFor(b) = 0 /\ ReceivedFor(b)))
    /\ \A b \in ProposedBlocks :
         (delivered[b] = 1) ~> (QueuedFor(b) = 0 /\ ReceivedFor(b))

C16_Witness ==
    \E b, c \in ProposedBlocks :
        /\ req[b].pc = "deliver" /\ Len(proofCh) = ProofChCapacity
        /\ delivered[c] = 1 /\ QueuedFor(c) = 0 /\ ReceivedFor(c)

\* Every request made has returned nil with one proof delivered, no request
\* or submission has failed, and no block has more than one delivery or
\* more than one prove transaction.
E2ENoFailureNoDuplicate ==
    /\ \A b \in ProposedBlocks :
         /\ req[b].pc = "done" => (req[b].ret = Nil /\ delivered[b] = 1)
         /\ delivered[b] <= 1 /\ proveTxs[b] <= 1
         /\ life[b] # "Failed"
         /\ life[b] = "Submitted" => (proveTxs[b] = 1 /\ delivered[b] = 1)
    /\ sub.pc = "done" => sub.ret = Nil
AllSubmitted ==
    \A b \in ProposedBlocks :
        life[b] = "Submitted" /\ proveTxs[b] = 1 /\ delivered[b] = 1

\* C8: in the end-to-end run every RequestProof returns nil with exactly one
\* ProofWithHeader on the channel, every SubmitProof returns nil, and all
\* blocks eventually are Submitted with exactly one prove transaction each.
C8_EndToEndAllSubmittedOnce == []E2ENoFailureNoDuplicate /\ <>[]AllSubmitted

C8_Witness == AllSubmitted /\ sub.pc = "done" /\ proofCh = <<>>

\* The collaborator calls of a SubmitProof with the tier-fee bump left out.
WithoutFeeBump(ops) == SelectSeq(ops, LAMBDA o : o # "TierFeeBump")

\* C9: a guardian-tier proof takes the same GetBlock / Build / Send path as
\* any other tier, with one Send, and is submitted successfully; the tier
\* decides only whether the tier-fee bump runs, which it does not for the
\* guardian tier.
C9_GuardianSamePathNoFeeBump ==
    /\ sub.pc = "Send" => WithoutFeeBump(sub.ops) = <<"GetBlock", "Build">>
    /\ sub.pc = "done" =>
         /\ WithoutFeeBump(sub.ops) = <<"GetBlock", "Build", "Send">>
         /\ sub.ret = Nil
         /\ proveTxs[sub.pwh.BlockID] = 1
    /\ sub.pc \in {"Send", "done"} =>
         ((sub.pwh.Tier = TierGuardianID) <=>
              (\A i \in 1..Len(sub.ops) : sub.ops[i] # "TierFeeBump"))

C9_Witness ==
    /\ sub.pc = "done" /\ sub.pwh.Tier = TierGuardianID
    /\ sub.ops = <<"GetBlock", "Build", "Send">>
    /\ sub.ret = Nil /\ life[sub.pwh.BlockID] = "Submitted"

====
